---- MODULE Spec2Model ----
(***************************************************************************)
(* System_Metrics_Monitor: the alert thresholds (src/alerts.py), the user  *)
(* and session store (src/auth.py), the alert table (src/database.py) and  *)
(* the collection loop with the metric history (src/app.py).               *)
(*                                                                         *)
(* Percentages are floats in the program; only their order matters here,   *)
(* so they are modelled by integers.  Times are integers counted in        *)
(* seconds.                                                                *)
(***************************************************************************)
EXTENDS Integers, Sequences, FiniteSets, TLC

VARIABLES
    cpu_threshold,      \* AlertManager.cpu_threshold
    memory_threshold,   \* AlertManager.memory_threshold
    users,              \* AuthManager.users: username -> user record
    sessions,           \* AuthManager.sessions: token -> session record
    issued,             \* tokens secrets.token_hex has produced -> time of the login
    clock,              \* datetime.now()
    recent_metrics,     \* app.recent_metrics
    pushed,             \* every sample appended to recent_metrics so far, in order
    rows,               \* the rows of table alerts, in rowid order
    conn,               \* DatabaseManager.conn is an open connection
    stop_event,         \* app.stop_event
    pc,                 \* position of the collection thread
    metric,             \* the sample of the iteration in flight
    alerts,             \* the alerts of the iteration in flight not yet stored
    iter,               \* iterations begun by the collection thread
    failed,             \* the iteration in flight has raised
    stop_iter,          \* value of iter when stop_event was set
    asleep,             \* length of the sleep the collection thread is in
    ret,                \* outcome of the last completed call
    tpc,                \* position of each request-handler thread in its call
    tloc,               \* the local variables of each request-handler thread
    cursor,             \* DatabaseManager.cursor: the statement last executed and its rows not yet fetched
    requested           \* the values set_cpu_threshold / set_memory_threshold have been called with

alertVars == <<cpu_threshold, memory_threshold>>
authVars  == <<users, sessions, issued>>
histVars  == <<recent_metrics, pushed>>
dbVars    == <<rows, conn>>
loopVars  == <<stop_event, pc, metric, alerts, iter, failed, stop_iter, asleep>>
reqVars   == <<tpc, tloc, cursor, requested>>
vars == <<cpu_threshold, memory_threshold, users, sessions, issued, clock, recent_metrics, pushed, rows, conn, stop_event, pc, metric,
          alerts, iter, failed, stop_iter, asleep, ret, tpc, tloc, cursor, requested>>

----------------------------------------------------------------------------
(* Program constants *)

CPU_THRESHOLD_INIT == 25
MEMORY_THRESHOLD_INIT == 30
SESSION_DURATION == 86400
MAX_METRICS_STORAGE == 100
SLEEP_OK == 5
SLEEP_ERROR == 10
METRICS_VIEW == 50
METRICS_ALERTS_LIMIT == 20
SAMPLE_INTERVAL == 1

None == "None"
Idle == [op |-> "idle"]

----------------------------------------------------------------------------
(* Bounds of the model *)

MaxSkew == 0
MaxTokens == 2
MaxPush == 102
MaxIter == 3
MaxRows == 3
\* iterations of the collection loop explored while request threads race with it
RaceIter == 1

\* the request-handler threads of the web server
Threads == {"h1", "h2"}

Usernames == {"alice", "bob"}
\* BadPassword stands for a password that cannot be encoded as UTF-8
BadPassword == "\\ud800"
Passwords == {"pw123", "other", BadPassword}
Salts == {"s1"}
\* Tokens are opaque: they are numbered in the order secrets.token_hex
\* produces them; Garbage is a string it never produces
Tokens == {<<"token", n>> : n \in 1..MaxTokens}
Garbage == <<"garbage">>
ThresholdInputs == {-1, 0, 25, 50, 100, 101, 150}
UsageInputs == {10, 25, 26, 30, 40}
StoreTimes == {1, 2}
Limits == {0, 1, 2, 10}
LoopSamples == {<<10, 10>>, <<40, 10>>, <<40, 40>>}

\* instants around the start and around the end of a session's life
Times == (0..MaxSkew) \cup {SESSION_DURATION + d : d \in 0..(MaxSkew + 1)}

----------------------------------------------------------------------------
(* src/alerts.py *)

Alert(type, text, value, threshold, timestamp) ==
    [type |-> type, message |-> <<text, value>>, value |-> value,
     threshold |-> threshold, timestamp |-> timestamp, severity |-> "HIGH"]

check_thresholds_nonstrict(cpu_usage, memory_usage, timestamp) ==
    (IF cpu_usage >= cpu_threshold
        THEN <<Alert("CPU", "High CPU usage", cpu_usage, cpu_threshold, timestamp)>>
        ELSE <<>>)
    \o
    (IF memory_usage >= memory_threshold
        THEN <<Alert("MEMORY", "High Memory usage", memory_usage, memory_threshold, timestamp)>>
        ELSE <<>>)

check_thresholds(cpu_usage, memory_usage, timestamp) ==
    (IF cpu_usage > cpu_threshold
        THEN <<Alert("CPU", "High CPU usage", cpu_usage, cpu_threshold, timestamp)>>
        ELSE <<>>)
    \o
    (IF memory_usage > memory_threshold
        THEN <<Alert("MEMORY", "High Memory usage", memory_usage, memory_threshold, timestamp)>>
        ELSE <<>>)

set_cpu_threshold_unchecked(threshold) ==
    /\ cpu_threshold' = threshold
    /\ ret' = [op |-> "set_cpu_threshold", threshold |-> threshold, raised |-> None]
    /\ UNCHANGED memory_threshold

set_cpu_threshold(threshold) ==
    IF threshold >= 0 /\ threshold <= 100
    THEN /\ cpu_threshold' = threshold
         /\ ret' = [op |-> "set_cpu_threshold", threshold |-> threshold, raised |-> None]
         /\ UNCHANGED memory_threshold
    ELSE /\ ret' = [op |-> "set_cpu_threshold", threshold |-> threshold,
                    raised |-> "CPU threshold must be between 0 and 100"]
         /\ UNCHANGED alertVars

set_memory_threshold(threshold) ==
    IF threshold >= 0 /\ threshold <= 100
    THEN /\ memory_threshold' = threshold
         /\ ret' = [op |-> "set_memory_threshold", threshold |-> threshold, raised |-> None]
         /\ UNCHANGED cpu_threshold
    ELSE /\ ret' = [op |-> "set_memory_threshold", threshold |-> threshold,
                    raised |-> "Memory threshold must be between 0 and 100"]
         /\ UNCHANGED alertVars

get_thresholds ==
    [cpu_threshold |-> cpu_threshold, memory_threshold |-> memory_threshold]

\* the calls of the AlertManager interface
SetCpuThreshold ==
    \E v \in ThresholdInputs :
        /\ set_cpu_threshold(v)
        /\ UNCHANGED <<authVars, clock, histVars, dbVars, loopVars, reqVars>>

SetMemoryThreshold ==
    \E v \in ThresholdInputs :
        /\ set_memory_threshold(v)
        /\ UNCHANGED <<authVars, clock, histVars, dbVars, loopVars, reqVars>>

CheckThresholds ==
    \E c \in UsageInputs, m \in UsageInputs :
        /\ ret' = [op |-> "check_thresholds", cpu_usage |-> c, memory_usage |-> m,
                   timestamp |-> clock, result |-> check_thresholds(c, m, clock)]
        /\ UNCHANGED <<alertVars, authVars, clock, histVars, dbVars, loopVars, reqVars>>

GetThresholds ==
    /\ ret' = [op |-> "get_thresholds", result |-> get_thresholds]
    /\ UNCHANGED <<alertVars, authVars, clock, histVars, dbVars, loopVars, reqVars>>

----------------------------------------------------------------------------
(* src/auth.py *)

\* password.encode('utf-8'): the bytes of the text; it raises for a value
\* that has no UTF-8 encoding (a string holding a lone surrogate, which a
\* JSON body can carry, or a value that is not a string)
encodable(password) == password # BadPassword
encode(password) == <<"utf-8", password>>

\* bcrypt.hashpw: a salted one-way hash; the salt is kept with the digest
hashpw(bytes, salt) == [salt |-> salt, digest |-> <<"bcrypt", salt, bytes>>]

\* bcrypt.checkpw: hashes the candidate under the stored salt and compares
checkpw(bytes, hashed) == hashpw(bytes, hashed.salt) = hashed

INVALID_LOGIN == "Invalid username or password"
ENCODE_FAILED == "'utf-8' codec can't encode"

register_user_overwrite(username, password, salt) ==
    IF ~encodable(password)
    THEN /\ ret' = [op |-> "register_user", raised |-> ENCODE_FAILED, result |-> None]
         /\ UNCHANGED authVars
    ELSE LET user_id == Cardinality(DOMAIN users) + 1
             user == [id |-> user_id, username |-> username,
                      password_hash |-> hashpw(encode(password), salt),
                      created_at |-> clock]
         IN  /\ users' = [u \in DOMAIN users \cup {username} |->
                             IF u = username THEN user ELSE users[u]]
             /\ ret' = [op |-> "register_user", raised |-> None, result |-> user_id]
             /\ UNCHANGED <<sessions, issued>>

register_user(username, password, salt) ==
    IF username \in DOMAIN users
    THEN /\ ret' = [op |-> "register_user", raised |-> "Username already exists",
                    result |-> None]
         /\ UNCHANGED authVars
    ELSE IF ~encodable(password)
    THEN /\ ret' = [op |-> "register_user", raised |-> ENCODE_FAILED, result |-> None]
         /\ UNCHANGED authVars
    ELSE LET user_id == Cardinality(DOMAIN users) + 1
             user == [id |-> user_id, username |-> username,
                      password_hash |-> hashpw(encode(password), salt),
                      created_at |-> clock]
         IN  /\ users' = [u \in DOMAIN users \cup {username} |->
                             IF u = username THEN user ELSE users[u]]
             /\ ret' = [op |-> "register_user", raised |-> None, result |-> user_id]
             /\ UNCHANGED <<sessions, issued>>

\* token is the value of secrets.token_hex(32): 256 random bits, taken to be
\* a value that no earlier call has produced
login_user(username, password, token) ==
    IF username \notin DOMAIN users
    THEN /\ ret' = [op |-> "login_user", raised |-> INVALID_LOGIN, result |-> None]
         /\ UNCHANGED authVars
    ELSE IF ~encodable(password)
    THEN /\ ret' = [op |-> "login_user", raised |-> ENCODE_FAILED, result |-> None]
         /\ UNCHANGED authVars
    ELSE IF ~checkpw(encode(password), users[username].password_hash)
    THEN /\ ret' = [op |-> "login_user", raised |-> INVALID_LOGIN, result |-> None]
         /\ UNCHANGED authVars
    ELSE /\ sessions' = [t \in DOMAIN sessions \cup {token} |->
                            IF t = token
                            THEN [user_id |-> users[username].id, username |-> username,
                                  expiry |-> clock + SESSION_DURATION]
                            ELSE sessions[t]]
         /\ issued' = [t \in DOMAIN issued \cup {token} |->
                          IF t = token THEN clock ELSE issued[t]]
         /\ ret' = [op |-> "login_user", raised |-> None, result |-> token]
         /\ UNCHANGED users

validate_session_early(token) ==
    IF token \notin DOMAIN sessions
    THEN /\ ret' = [op |-> "validate_session", token |-> token, result |-> FALSE]
         /\ UNCHANGED <<users, sessions, issued>>
    ELSE IF clock >= sessions[token].expiry
    THEN /\ sessions' = [t \in DOMAIN sessions \ {token} |-> sessions[t]]
         /\ ret' = [op |-> "validate_session", token |-> token, result |-> FALSE]
         /\ UNCHANGED <<users, issued>>
    ELSE /\ ret' = [op |-> "validate_session", token |-> token, result |-> TRUE]
         /\ UNCHANGED authVars

validate_session_sliding(token) ==
    IF token \notin DOMAIN sessions
    THEN /\ ret' = [op |-> "validate_session", token |-> token, result |-> FALSE]
         /\ UNCHANGED <<users, sessions, issued>>
    ELSE IF clock > sessions[token].expiry
    THEN /\ sessions' = [t \in DOMAIN sessions \ {token} |-> sessions[t]]
         /\ ret' = [op |-> "validate_session", token |-> token, result |-> FALSE]
         /\ UNCHANGED <<users, issued>>
    ELSE /\ sessions' = [sessions EXCEPT ![token].expiry = clock + SESSION_DURATION]
         /\ ret' = [op |-> "validate_session", token |-> token, result |-> TRUE]
         /\ UNCHANGED <<users, issued>>

validate_session(token) ==
    IF token \notin DOMAIN sessions
    THEN /\ ret' = [op |-> "validate_session", token |-> token, result |-> FALSE]
         /\ UNCHANGED <<users, sessions, issued>>
    ELSE IF clock > sessions[token].expiry
    THEN /\ sessions' = [t \in DOMAIN sessions \ {token} |-> sessions[t]]
         /\ ret' = [op |-> "validate_session", token |-> token, result |-> FALSE]
         /\ UNCHANGED <<users, issued>>
    ELSE /\ ret' = [op |-> "validate_session", token |-> token, result |-> TRUE]
         /\ UNCHANGED authVars

get_user_id(username) ==
    IF username \in DOMAIN users THEN users[username].id ELSE None

cleanup_expired_sessions_eager ==
    LET now == clock
        expired == {t \in DOMAIN sessions : now >= sessions[t].expiry}
    IN  /\ sessions' = [t \in DOMAIN sessions \ expired |-> sessions[t]]
        /\ ret' = [op |-> "cleanup_expired_sessions", removed |-> expired]
        /\ UNCHANGED <<users, issued>>

cleanup_expired_sessions ==
    LET now == clock
        expired == {t \in DOMAIN sessions : now > sessions[t].expiry}
    IN  /\ sessions' = [t \in DOMAIN sessions \ expired |-> sessions[t]]
        /\ ret' = [op |-> "cleanup_expired_sessions", removed |-> expired]
        /\ UNCHANGED <<users, issued>>

\* the calls of the AuthManager interface
RegisterUser ==
    \E u \in Usernames, p \in Passwords, s \in Salts :
        /\ register_user(u, p, s)
        /\ UNCHANGED <<alertVars, clock, histVars, dbVars, loopVars, reqVars>>

LoginUser ==
    \E u \in Usernames, p \in Passwords, t \in Tokens :
        /\ t = <<"token", Cardinality(DOMAIN issued) + 1>>
        /\ login_user(u, p, t)
        /\ UNCHANGED <<alertVars, clock, histVars, dbVars, loopVars, reqVars>>

ValidateSession ==
    \E t \in DOMAIN issued \cup {Garbage} :
        /\ validate_session(t)
        /\ UNCHANGED <<alertVars, clock, histVars, dbVars, loopVars, reqVars>>

GetUserId ==
    \E u \in Usernames :
        /\ ret' = [op |-> "get_user_id", username |-> u, result |-> get_user_id(u)]
        /\ UNCHANGED <<alertVars, authVars, clock, histVars, dbVars, loopVars, reqVars>>

CleanupExpiredSessions ==
    /\ cleanup_expired_sessions
    /\ UNCHANGED <<alertVars, clock, histVars, dbVars, loopVars, reqVars>>

\* time passes between calls
Tick ==
    \E t \in Times :
        /\ t > clock
        /\ clock' = t
        /\ ret' = Idle
        /\ UNCHANGED <<alertVars, authVars, histVars, dbVars, loopVars, reqVars>>

----------------------------------------------------------------------------
(* src/database.py *)

\* sqlite3 stores a datetime parameter as its ISO text and a query returns
\* that text; the order of the texts is the order of the instants
adapt_datetime(timestamp) == [isoformat |-> timestamp]

Row(id, alert) ==
    [id |-> id, type |-> alert.type, message |-> alert.message, value |-> alert.value,
     threshold |-> alert.threshold, severity |-> alert.severity,
     timestamp |-> adapt_datetime(alert.timestamp), acknowledged |-> FALSE]

CLOSED == "'NoneType' object has no attribute 'execute'"
SQLITE_ERROR == "sqlite3.OperationalError"

close_connection ==
    /\ conn' = FALSE
    /\ UNCHANGED rows

\* ok: the INSERT and the commit succeed in SQLite
store_alert(alert, ok) ==
    /\ rows' = IF conn /\ ok THEN Append(rows, Row(Len(rows) + 1, alert)) ELSE rows
    /\ UNCHANGED conn

store_alert_raises(ok) == IF ~conn THEN CLOSED ELSE IF ~ok THEN SQLITE_ERROR ELSE None

get_total_alerts == Len(rows)

RECURSIVE CountByType(_, _)
CountByType(rs, result) ==
    IF rs = <<>> THEN result
    ELSE LET key == Head(rs).type
             n == IF key \in DOMAIN result THEN result[key] + 1 ELSE 1
         IN  CountByType(Tail(rs), [k \in DOMAIN result \cup {key} |->
                                       IF k = key THEN n ELSE result[k]])

get_alert_breakdown == CountByType(rows, <<>>)

\* the row numbers a query ORDER BY timestamp ... LIMIT k can return, k >= 0:
\* rows of equal timestamp come in an order SQLite does not promise
Before(i, j, descending) ==
    IF descending
    THEN rows[i].timestamp.isoformat >= rows[j].timestamp.isoformat
    ELSE rows[i].timestamp.isoformat <= rows[j].timestamp.isoformat

RECURSIVE Ordered(_, _, _)
Ordered(S, k, descending) ==
    IF k = 0 \/ S = {} THEN {<<>>}
    ELSE UNION {{<<i>> \o rest : rest \in Ordered(S \ {i}, k - 1, descending)} :
                  i \in {j \in S : \A l \in S : Before(j, l, descending)}}

RowAlert(row) ==
    [type |-> row.type, message |-> row.message, value |-> row.value,
     threshold |-> row.threshold, severity |-> row.severity, timestamp |-> row.timestamp]

get_recent_alerts_oldest(limit) ==
    {[i \in DOMAIN order |-> RowAlert(rows[order[i]])] :
        order \in Ordered(DOMAIN rows, IF limit < 0 THEN Len(rows) ELSE limit, FALSE)}

\* the results the query can give; a negative LIMIT means no limit
get_recent_alerts(limit) ==
    {[i \in DOMAIN order |-> RowAlert(rows[order[i]])] :
        order \in Ordered(DOMAIN rows, IF limit < 0 THEN Len(rows) ELSE limit, TRUE)}

\* the calls of the DatabaseManager interface
StoreAlert ==
    \E type \in {"CPU", "MEMORY"}, ts \in StoreTimes, ok \in BOOLEAN :
        LET alert == Alert(type, "High usage", 40, 25, ts) IN
        /\ Len(rows) < MaxRows
        /\ store_alert(alert, ok)
        /\ ret' = [op |-> "store_alert", alert |-> alert, raised |-> store_alert_raises(ok)]
        /\ UNCHANGED <<alertVars, authVars, clock, histVars, loopVars, reqVars>>

GetTotalAlerts ==
    /\ ret' = IF conn THEN [op |-> "get_total_alerts", raised |-> None,
                            result |-> get_total_alerts]
              ELSE [op |-> "get_total_alerts", raised |-> CLOSED, result |-> None]
    /\ UNCHANGED <<alertVars, authVars, clock, histVars, dbVars, loopVars, reqVars>>

GetAlertBreakdown ==
    /\ ret' = IF conn THEN [op |-> "get_alert_breakdown", raised |-> None,
                            result |-> get_alert_breakdown]
              ELSE [op |-> "get_alert_breakdown", raised |-> CLOSED, result |-> None]
    /\ UNCHANGED <<alertVars, authVars, clock, histVars, dbVars, loopVars, reqVars>>

GetRecentAlerts ==
    \E limit \in Limits :
        /\ IF conn
           THEN \E r \in get_recent_alerts(limit) :
                   ret' = [op |-> "get_recent_alerts", limit |-> limit,
                           raised |-> None, result |-> r]
           ELSE ret' = [op |-> "get_recent_alerts", limit |-> limit,
                        raised |-> CLOSED, result |-> None]
        /\ UNCHANGED <<alertVars, authVars, clock, histVars, dbVars, loopVars, reqVars>>

CloseConnection ==
    /\ conn
    /\ close_connection
    /\ ret' = [op |-> "close_connection"]
    /\ UNCHANGED <<alertVars, authVars, clock, histVars, loopVars, reqVars>>

----------------------------------------------------------------------------
(* src/app.py: the metric history and the collection thread *)

\* recent_metrics.append(metric), then pop(0) when the list is over capacity
push_drop_newest(list, m) ==
    LET appended == Append(list, m)
    IN  IF Len(appended) > MAX_METRICS_STORAGE
        THEN SubSeq(appended, 1, Len(appended) - 1)
        ELSE appended

push(list, m) ==
    LET appended == Append(list, m)
    IN  IF Len(appended) > MAX_METRICS_STORAGE THEN Tail(appended) ELSE appended

\* list[-k:]
LastN(list, k) ==
    IF Len(list) <= k THEN list ELSE SubSeq(list, Len(list) - k + 1, Len(list))

LoopCheck_deaf(max) ==
    /\ pc = "check"
    /\ iter < max
    /\ pc' = "sample" /\ iter' = iter + 1 /\ failed' = FALSE
    /\ UNCHANGED <<stop_event, metric, alerts, stop_iter, asleep>>
    /\ UNCHANGED <<alertVars, authVars, clock, histVars, dbVars, ret, reqVars>>

\* while not stop_event.is_set(); max bounds the iterations of a run
LoopCheck(max) ==
    /\ pc = "check"
    /\ IF stop_event
       THEN pc' = "stopped" /\ UNCHANGED <<iter, failed>>
       ELSE iter < max /\ pc' = "sample" /\ iter' = iter + 1 /\ failed' = FALSE
    /\ UNCHANGED <<stop_event, metric, alerts, stop_iter, asleep>>
    /\ UNCHANGED <<alertVars, authVars, clock, histVars, dbVars, ret, reqVars>>

\* an exception leaves the try block: the handler prints it and sleeps 10
Except ==
    /\ failed' = TRUE
    /\ asleep' = SLEEP_ERROR
    /\ pc' = "sleep"

\* lines 36-44: the sampler measures over SAMPLE_INTERVAL; ok: psutil answers
LoopSample(cpu, memory, ok) ==
    /\ pc = "sample"
    /\ clock' = clock + SAMPLE_INTERVAL
    /\ IF ok
       THEN /\ metric' = [timestamp |-> clock', cpu_usage |-> cpu, memory_usage |-> memory]
            /\ pc' = "push"
            /\ UNCHANGED <<failed, asleep>>
       ELSE /\ Except
            /\ UNCHANGED metric
    /\ UNCHANGED <<stop_event, alerts, iter, stop_iter>>
    /\ UNCHANGED <<alertVars, authVars, histVars, dbVars, ret, reqVars>>

\* lines 47-50, under recent_metrics_lock
LoopPush ==
    /\ pc = "push"
    /\ recent_metrics' = push(recent_metrics, metric)
    /\ pushed' = Append(pushed, metric)
    /\ pc' = "eval"
    /\ UNCHANGED <<stop_event, metric, alerts, iter, failed, stop_iter, asleep>>
    /\ UNCHANGED <<alertVars, authVars, clock, dbVars, ret, reqVars>>

LoopEval_dedup ==
    /\ pc = "eval"
    /\ alerts' = SelectSeq(check_thresholds(metric.cpu_usage, metric.memory_usage, metric.timestamp),
                           LAMBDA a : \A i \in DOMAIN rows : rows[i].type # a.type)
    /\ pc' = "store"
    /\ UNCHANGED <<stop_event, metric, iter, failed, stop_iter, asleep>>
    /\ UNCHANGED <<alertVars, authVars, clock, histVars, dbVars, ret, reqVars>>

\* line 53
LoopEval ==
    /\ pc = "eval"
    /\ alerts' = check_thresholds(metric.cpu_usage, metric.memory_usage, metric.timestamp)
    /\ pc' = "store"
    /\ UNCHANGED <<stop_event, metric, iter, failed, stop_iter, asleep>>
    /\ UNCHANGED <<alertVars, authVars, clock, histVars, dbVars, ret, reqVars>>

LoopStore_uncaught(ok) ==
    /\ pc = "store"
    /\ alerts # <<>>
    /\ store_alert(Head(alerts), ok)
    /\ IF store_alert_raises(ok) = None
       THEN /\ alerts' = Tail(alerts)
            /\ UNCHANGED <<pc, failed, asleep>>
       ELSE /\ pc' = "dead"
            /\ UNCHANGED <<alerts, failed, asleep>>
    /\ UNCHANGED <<stop_event, metric, iter, stop_iter>>
    /\ UNCHANGED <<alertVars, authVars, clock, histVars, ret, reqVars>>

\* lines 54-56: one turn of the for loop
LoopStore(ok) ==
    /\ pc = "store"
    /\ alerts # <<>>
    /\ store_alert(Head(alerts), ok)
    /\ IF store_alert_raises(ok) = None
       THEN /\ alerts' = Tail(alerts)
            /\ UNCHANGED <<pc, failed, asleep>>
       ELSE /\ Except
            /\ UNCHANGED alerts
    /\ UNCHANGED <<stop_event, metric, iter, stop_iter>>
    /\ UNCHANGED <<alertVars, authVars, clock, histVars, ret, reqVars>>

\* line 58, reached when the for loop is exhausted
LoopStored ==
    /\ pc = "store"
    /\ alerts = <<>>
    /\ asleep' = SLEEP_OK
    /\ pc' = "sleep"
    /\ UNCHANGED <<stop_event, metric, alerts, iter, failed, stop_iter>>
    /\ UNCHANGED <<alertVars, authVars, clock, histVars, dbVars, ret, reqVars>>

\* time.sleep returns
LoopWake ==
    /\ pc = "sleep"
    /\ clock' = clock + asleep
    /\ asleep' = 0
    /\ pc' = "check"
    /\ UNCHANGED <<stop_event, metric, alerts, iter, failed, stop_iter>>
    /\ UNCHANGED <<alertVars, authVars, histVars, dbVars, ret, reqVars>>

\* lines 213-216: the web server returns and the main thread sets the event
StopSignal ==
    /\ ~stop_event
    /\ stop_event' = TRUE
    /\ stop_iter' = iter
    /\ UNCHANGED <<pc, metric, alerts, iter, failed, asleep>>
    /\ UNCHANGED <<alertVars, authVars, clock, histVars, dbVars, ret, reqVars>>

\* lines 196-198: the teardown that follows every served request
CloseResources ==
    /\ close_connection
    /\ UNCHANGED <<alertVars, authVars, clock, histVars, loopVars, ret, reqVars>>

\* lines 162-169, followed by the teardown
GetMetrics ==
    LET metrics == LastN(recent_metrics, METRICS_VIEW) IN
    /\ IF conn
       THEN \E r \in get_recent_alerts(METRICS_ALERTS_LIMIT) :
               ret' = [op |-> "get_metrics", status |-> 200, recent_metrics |-> metrics,
                       current_alerts |-> r, n |-> Len(pushed)]
       ELSE ret' = [op |-> "get_metrics", status |-> 500, recent_metrics |-> metrics,
                    current_alerts |-> None, n |-> Len(pushed)]
    /\ close_connection
    /\ UNCHANGED <<alertVars, authVars, clock, histVars, loopVars, reqVars>>

Check == LoopCheck(MaxIter)

Sample == \E s \in LoopSamples, ok \in BOOLEAN : LoopSample(s[1], s[2], ok)

Store == \E ok \in BOOLEAN : LoopStore(ok)

\* a run of MaxPush iterations on a quiet host
QuietCheck == LoopCheck(MaxPush)

QuietSample == LoopSample(10, 10, TRUE)

LoopStep == Check \/ Sample \/ LoopPush \/ LoopEval \/ Store \/ LoopStored \/ LoopWake

----------------------------------------------------------------------------
(* State after construction (src/app.py 19-30) *)

----------------------------------------------------------------------------
(* src/alerts.py statement by statement: the web server serves each request
   on a thread of its own while the collection thread evaluates samples, and
   AlertManager takes no lock, so the statements of concurrent calls
   interleave. An attribute read or write is one indivisible step. *)

RaceThresholds == {50, 150}
RaceSample == <<40, 40>>

\* alerts.py line 12 and the test of line 13
EvalCpuTest ==
    /\ pc = "eval"
    /\ alerts' = <<>>
    /\ pc' = IF metric.cpu_usage > cpu_threshold THEN "eval_cpu_alert" ELSE "eval_memory"
    /\ UNCHANGED <<stop_event, metric, iter, failed, stop_iter, asleep>>
    /\ UNCHANGED <<alertVars, authVars, clock, histVars, dbVars, ret, reqVars>>

\* alerts.py lines 14-21: the alert is built from a second read of the threshold
EvalCpuAlert ==
    /\ pc = "eval_cpu_alert"
    /\ alerts' = Append(alerts, Alert("CPU", "High CPU usage", metric.cpu_usage,
                                      cpu_threshold, metric.timestamp))
    /\ pc' = "eval_memory"
    /\ UNCHANGED <<stop_event, metric, iter, failed, stop_iter, asleep>>
    /\ UNCHANGED <<alertVars, authVars, clock, histVars, dbVars, ret, reqVars>>

\* alerts.py line 24
EvalMemoryTest ==
    /\ pc = "eval_memory"
    /\ pc' = IF metric.memory_usage > memory_threshold THEN "eval_memory_alert" ELSE "store"
    /\ UNCHANGED <<stop_event, metric, alerts, iter, failed, stop_iter, asleep>>
    /\ UNCHANGED <<alertVars, authVars, clock, histVars, dbVars, ret, reqVars>>

\* alerts.py lines 25-32 and the return of line 35
EvalMemoryAlert ==
    /\ pc = "eval_memory_alert"
    /\ alerts' = Append(alerts, Alert("MEMORY", "High Memory usage", metric.memory_usage,
                                      memory_threshold, metric.timestamp))
    /\ pc' = "store"
    /\ UNCHANGED <<stop_event, metric, iter, failed, stop_iter, asleep>>
    /\ UNCHANGED <<alertVars, authVars, clock, histVars, dbVars, ret, reqVars>>

\* a request thread enters set_cpu_threshold or set_memory_threshold
SetCall(t, kind, threshold) ==
    /\ tpc[t] = "idle"
    /\ tpc' = [tpc EXCEPT ![t] = "set_validate"]
    /\ tloc' = [tloc EXCEPT ![t] = [op |-> kind, threshold |-> threshold]]
    /\ requested' = [requested EXCEPT ![kind] = @ \cup {threshold}]
    /\ UNCHANGED <<alertVars, authVars, clock, histVars, dbVars, loopVars, ret, cursor>>

SetValidate_skipped(t) ==
    /\ tpc[t] = "set_validate"
    /\ tpc' = [tpc EXCEPT ![t] = "set_assign"]
    /\ UNCHANGED tloc
    /\ UNCHANGED <<alertVars, authVars, clock, histVars, dbVars, loopVars, ret, cursor, requested>>

\* alerts.py lines 39-40 and 46-47: the range test, raising ValueError
SetValidate(t) ==
    /\ tpc[t] = "set_validate"
    /\ IF tloc[t].threshold >= 0 /\ tloc[t].threshold <= 100
       THEN /\ tpc' = [tpc EXCEPT ![t] = "set_assign"]
            /\ UNCHANGED tloc
       ELSE /\ tpc' = [tpc EXCEPT ![t] = "idle"]
            /\ tloc' = [tloc EXCEPT ![t] = Idle]
    /\ UNCHANGED <<alertVars, authVars, clock, histVars, dbVars, loopVars, ret, cursor, requested>>

\* alerts.py lines 41-42 and 48-49: the assignment and the return
SetAssign(t) ==
    /\ tpc[t] = "set_assign"
    /\ IF tloc[t].op = "cpu"
       THEN cpu_threshold' = tloc[t].threshold /\ UNCHANGED memory_threshold
       ELSE memory_threshold' = tloc[t].threshold /\ UNCHANGED cpu_threshold
    /\ tpc' = [tpc EXCEPT ![t] = "idle"]
    /\ tloc' = [tloc EXCEPT ![t] = Idle]
    /\ UNCHANGED <<authVars, clock, histVars, dbVars, loopVars, ret, cursor, requested>>

\* a request thread enters get_thresholds
GetCall(t) ==
    /\ tpc[t] = "idle"
    /\ tpc' = [tpc EXCEPT ![t] = "get_cpu"]
    /\ tloc' = [tloc EXCEPT ![t] = [op |-> "get_thresholds"]]
    /\ UNCHANGED <<alertVars, authVars, clock, histVars, dbVars, loopVars, ret, cursor, requested>>

\* alerts.py line 54
GetCpu(t) ==
    /\ tpc[t] = "get_cpu"
    /\ tpc' = [tpc EXCEPT ![t] = "get_memory"]
    /\ tloc' = [tloc EXCEPT ![t] = [op |-> "get_thresholds", cpu_threshold |-> cpu_threshold]]
    /\ UNCHANGED <<alertVars, authVars, clock, histVars, dbVars, loopVars, ret, cursor, requested>>

\* alerts.py line 55
GetMemory(t) ==
    /\ tpc[t] = "get_memory"
    /\ tpc' = [tpc EXCEPT ![t] = "get_return"]
    /\ tloc' = [tloc EXCEPT ![t] = [op |-> "get_thresholds", cpu_threshold |-> tloc[t].cpu_threshold,
                                    memory_threshold |-> memory_threshold]]
    /\ UNCHANGED <<alertVars, authVars, clock, histVars, dbVars, loopVars, ret, cursor, requested>>

\* alerts.py lines 53-56: the dictionary is returned
GetReturn(t) ==
    /\ tpc[t] = "get_return"
    /\ tpc' = [tpc EXCEPT ![t] = "idle"]
    /\ tloc' = [tloc EXCEPT ![t] = Idle]
    /\ UNCHANGED <<alertVars, authVars, clock, histVars, dbVars, loopVars, ret, cursor, requested>>

SetCalls == \E t \in Threads, kind \in {"cpu", "memory"}, v \in RaceThresholds : SetCall(t, kind, v)
SetValidates == \E t \in Threads : SetValidate(t)
SetAssigns == \E t \in Threads : SetAssign(t)
GetCalls == \E t \in Threads : GetCall(t)
GetCpus == \E t \in Threads : GetCpu(t)
GetMemorys == \E t \in Threads : GetMemory(t)
GetReturns == \E t \in Threads : GetReturn(t)
RaceCheck == LoopCheck(RaceIter)
RaceSampled == LoopSample(RaceSample[1], RaceSample[2], TRUE)
RaceStore == LoopStore(TRUE)

----------------------------------------------------------------------------
(* src/auth.py statement by statement: AuthManager takes no lock, so the
   statements of calls made by concurrent request threads interleave. A
   thread that has returned or raised stays at "done" with its outcome. *)

Outcome(t, raised, result) ==
    /\ tpc' = [tpc EXCEPT ![t] = "done"]
    /\ tloc' = [tloc EXCEPT ![t] = [op |-> tloc[t].op, username |-> tloc[t].username,
                                    password |-> tloc[t].password,
                                    raised |-> raised, result |-> result]]

\* a request thread enters register_user
RegCall(t, username, password) ==
    /\ tpc[t] = "idle"
    /\ tpc' = [tpc EXCEPT ![t] = "reg_check"]
    /\ tloc' = [tloc EXCEPT ![t] = [op |-> "register_user", username |-> username,
                                    password |-> password]]
    /\ UNCHANGED <<alertVars, authVars, clock, histVars, dbVars, loopVars, ret, cursor, requested>>

\* auth.py lines 16-17
RegCheck(t) ==
    /\ tpc[t] = "reg_check"
    /\ IF tloc[t].username \in DOMAIN users
       THEN Outcome(t, "Username already exists", None)
       ELSE tpc' = [tpc EXCEPT ![t] = "reg_hash"] /\ UNCHANGED tloc
    /\ UNCHANGED <<alertVars, authVars, clock, histVars, dbVars, loopVars, ret, cursor, requested>>

\* auth.py line 19
RegHash(t, salt) ==
    /\ tpc[t] = "reg_hash"
    /\ IF ~encodable(tloc[t].password)
       THEN Outcome(t, ENCODE_FAILED, None)
       ELSE /\ tpc' = [tpc EXCEPT ![t] = "reg_id"]
            /\ tloc' = [tloc EXCEPT ![t] = [op |-> "register_user", username |-> tloc[t].username,
                                            password |-> tloc[t].password,
                                            hashed |-> hashpw(encode(tloc[t].password), salt)]]
    /\ UNCHANGED <<alertVars, authVars, clock, histVars, dbVars, loopVars, ret, cursor, requested>>

\* auth.py line 20
RegId(t) ==
    /\ tpc[t] = "reg_id"
    /\ tpc' = [tpc EXCEPT ![t] = "reg_insert"]
    /\ tloc' = [tloc EXCEPT ![t] = [op |-> "register_user", username |-> tloc[t].username,
                                    password |-> tloc[t].password, hashed |-> tloc[t].hashed,
                                    user_id |-> Cardinality(DOMAIN users) + 1]]
    /\ UNCHANGED <<alertVars, authVars, clock, histVars, dbVars, loopVars, ret, cursor, requested>>

\* auth.py lines 21-27
RegInsert(t) ==
    /\ tpc[t] = "reg_insert"
    /\ LET user == [id |-> tloc[t].user_id, username |-> tloc[t].username,
                    password_hash |-> tloc[t].hashed, created_at |-> clock]
       IN  users' = [u \in DOMAIN users \cup {tloc[t].username} |->
                        IF u = tloc[t].username THEN user ELSE users[u]]
    /\ Outcome(t, None, tloc[t].user_id)
    /\ UNCHANGED <<sessions, issued>>
    /\ UNCHANGED <<alertVars, clock, histVars, dbVars, loopVars, ret, cursor, requested>>

RegCalls == \E t \in Threads, u \in Usernames, p \in Passwords : RegCall(t, u, p)
RegChecks == \E t \in Threads : RegCheck(t)
RegHashes == \E t \in Threads, s \in Salts : RegHash(t, s)
RegIds == \E t \in Threads : RegId(t)
RegInserts == \E t \in Threads : RegInsert(t)

----------------------------------------------------------------------------
(* src/database.py statement by statement: every DatabaseManager method runs
   its statement on the one cursor made in __init__ and then fetches from
   that same cursor; the connection is opened with check_same_thread=False
   and no lock is taken, so the execute and the fetch of concurrent callers
   interleave. An execute replaces the cursor's pending result. *)

SUMMARY_LIMIT == 10
NOT_SUBSCRIPTABLE == "'NoneType' object is not subscriptable"
INDEX_ERROR == "tuple index out of range"

\* the result rows of the three SELECT statements, as tuples of columns
CountRows == <<<<Len(rows)>>>>
GroupRows ==
    LET counts == get_alert_breakdown
    IN  (IF "CPU" \in DOMAIN counts THEN <<<<"CPU", counts["CPU"]>>>> ELSE <<>>)
        \o (IF "MEMORY" \in DOMAIN counts THEN <<<<"MEMORY", counts["MEMORY"]>>>> ELSE <<>>)
AlertTuple(a) == <<a.type, a.message, a.value, a.threshold, a.severity, a.timestamp>>
RecentRows(limit) ==
    {[i \in DOMAIN r |-> AlertTuple(r[i])] : r \in get_recent_alerts(limit)}

\* what each method makes of the rows it fetched
TupleAlert(row) ==
    [type |-> row[1], message |-> row[2], value |-> row[3],
     threshold |-> row[4], severity |-> row[5], timestamp |-> row[6]]
BreakdownOf(fetched) ==
    [k \in {fetched[i][1] : i \in DOMAIN fetched} |->
        LET last == CHOOSE i \in DOMAIN fetched :
                        /\ fetched[i][1] = k
                        /\ \A j \in DOMAIN fetched : fetched[j][1] = k => j <= i
        IN  fetched[last][2]]
AlertsOf(fetched) == [i \in DOMAIN fetched |-> TupleAlert(fetched[i])]

DbOutcome(t, raised, result) ==
    /\ tpc' = [tpc EXCEPT ![t] = "done"]
    /\ tloc' = [tloc EXCEPT ![t] = [op |-> tloc[t].op, raised |-> raised, result |-> result]]

\* a request thread enters one of the read methods
DbCall(t, op) ==
    /\ tpc[t] = "idle"
    /\ tpc' = [tpc EXCEPT ![t] = "db_execute"]
    /\ tloc' = [tloc EXCEPT ![t] = [op |-> op]]
    /\ UNCHANGED <<alertVars, authVars, clock, histVars, dbVars, loopVars, ret, cursor, requested>>

\* database.py lines 44, 50, 61-66: self.cursor.execute(SELECT ...)
DbExecute(t) ==
    /\ tpc[t] = "db_execute"
    /\ IF ~conn
       THEN DbOutcome(t, CLOSED, None) /\ UNCHANGED cursor
       ELSE /\ \E result \in (IF tloc[t].op = "get_total_alerts" THEN {CountRows}
                              ELSE IF tloc[t].op = "get_alert_breakdown" THEN {GroupRows}
                              ELSE RecentRows(SUMMARY_LIMIT)) :
                    cursor' = [statement |-> tloc[t].op, owner |-> t, pending |-> result]
            /\ tpc' = [tpc EXCEPT ![t] = "db_fetch"]
            /\ UNCHANGED tloc
    /\ UNCHANGED <<alertVars, authVars, clock, histVars, dbVars, loopVars, ret, requested>>

\* database.py lines 45-46, 51-57, 67-80: fetchone()[0] or fetchall() on
\* whatever the cursor holds now, and the conversion of the rows
DbFetch(t) ==
    /\ tpc[t] = "db_fetch"
    /\ IF tloc[t].op = "get_total_alerts"
       THEN IF cursor.pending = <<>>
            THEN DbOutcome(t, NOT_SUBSCRIPTABLE, None) /\ UNCHANGED cursor
            ELSE /\ DbOutcome(t, None, Head(cursor.pending)[1])
                 /\ cursor' = [cursor EXCEPT !.pending = Tail(@)]
       ELSE /\ cursor' = [cursor EXCEPT !.pending = <<>>]
            /\ IF tloc[t].op = "get_alert_breakdown"
               THEN IF \E i \in DOMAIN cursor.pending : Len(cursor.pending[i]) < 2
                    THEN DbOutcome(t, INDEX_ERROR, None)
                    ELSE DbOutcome(t, None, BreakdownOf(cursor.pending))
               ELSE IF \E i \in DOMAIN cursor.pending : Len(cursor.pending[i]) < 6
                    THEN DbOutcome(t, INDEX_ERROR, None)
                    ELSE DbOutcome(t, None, AlertsOf(cursor.pending))
    /\ UNCHANGED <<alertVars, authVars, clock, histVars, dbVars, loopVars, ret, requested>>

\* database.py lines 36-40 on the collection thread: the INSERT runs on the
\* same cursor and leaves it without a result; then the commit
StoreExecute(alert) ==
    /\ conn
    /\ Len(rows) < MaxRows
    /\ store_alert(alert, TRUE)
    /\ cursor' = [statement |-> "store_alert", owner |-> "collector", pending |-> <<>>]
    /\ UNCHANGED <<alertVars, authVars, clock, histVars, loopVars, ret, tpc, tloc, requested>>

DbCalls == \E t \in Threads, op \in {"get_total_alerts", "get_alert_breakdown", "get_recent_alerts"} : DbCall(t, op)
DbExecutes == \E t \in Threads : DbExecute(t)
DbFetches == \E t \in Threads : DbFetch(t)
StoreExecutes == \E type \in {"CPU", "MEMORY"} : StoreExecute(Alert(type, "High usage", 40, 25, clock))

----------------------------------------------------------------------------
(* src/auth.py, the session store statement by statement: validate_session
   and cleanup_expired_sessions test, read and delete in separate statements
   and take no lock, while other request threads validate, sweep or log in. *)

KEY_ERROR == "KeyError"
DICT_CHANGED == "dictionary changed size during iteration"

SessionOutcome(t, raised, result) ==
    /\ tpc' = [tpc EXCEPT ![t] = "done"]
    /\ tloc' = [tloc EXCEPT ![t] = [op |-> tloc[t].op, raised |-> raised, result |-> result]]

Without(token) == [x \in DOMAIN sessions \ {token} |-> sessions[x]]

\* a request thread enters validate_session
ValCall(t, token) ==
    /\ tpc[t] = "idle"
    /\ tpc' = [tpc EXCEPT ![t] = "val_check"]
    /\ tloc' = [tloc EXCEPT ![t] = [op |-> "validate_session", token |-> token]]
    /\ UNCHANGED <<alertVars, authVars, clock, histVars, dbVars, loopVars, ret, cursor, requested>>

\* auth.py lines 51-52
ValCheck(t) ==
    /\ tpc[t] = "val_check"
    /\ IF tloc[t].token \notin DOMAIN sessions
       THEN SessionOutcome(t, None, FALSE)
       ELSE tpc' = [tpc EXCEPT ![t] = "val_read"] /\ UNCHANGED tloc
    /\ UNCHANGED <<alertVars, authVars, clock, histVars, dbVars, loopVars, ret, cursor, requested>>

\* auth.py line 54
ValRead(t) ==
    /\ tpc[t] = "val_read"
    /\ IF tloc[t].token \notin DOMAIN sessions
       THEN SessionOutcome(t, KEY_ERROR, None)
       ELSE /\ tpc' = [tpc EXCEPT ![t] = "val_test"]
            /\ tloc' = [tloc EXCEPT ![t] = [op |-> "validate_session", token |-> tloc[t].token,
                                            session |-> sessions[tloc[t].token]]]
    /\ UNCHANGED <<alertVars, authVars, clock, histVars, dbVars, loopVars, ret, cursor, requested>>

\* auth.py lines 55 and 59
ValTest(t) ==
    /\ tpc[t] = "val_test"
    /\ IF clock > tloc[t].session.expiry
       THEN tpc' = [tpc EXCEPT ![t] = "val_delete"] /\ UNCHANGED tloc
       ELSE SessionOutcome(t, None, TRUE)
    /\ UNCHANGED <<alertVars, authVars, clock, histVars, dbVars, loopVars, ret, cursor, requested>>

\* auth.py lines 56-57
ValDelete(t) ==
    /\ tpc[t] = "val_delete"
    /\ IF tloc[t].token \notin DOMAIN sessions
       THEN SessionOutcome(t, KEY_ERROR, None) /\ UNCHANGED sessions
       ELSE sessions' = Without(tloc[t].token) /\ SessionOutcome(t, None, FALSE)
    /\ UNCHANGED <<users, issued>>
    /\ UNCHANGED <<alertVars, clock, histVars, dbVars, loopVars, ret, cursor, requested>>

\* auth.py line 69 and the start of the scan of line 70: the iterator notes
\* the size of the dictionary
SweepCall(t) ==
    /\ tpc[t] = "idle"
    /\ tpc' = [tpc EXCEPT ![t] = "sweep_scan"]
    /\ tloc' = [tloc EXCEPT ![t] = [op |-> "cleanup_expired_sessions", now |-> clock,
                                    size |-> Cardinality(DOMAIN sessions),
                                    seen |-> {}, expired |-> {}]]
    /\ UNCHANGED <<alertVars, authVars, clock, histVars, dbVars, loopVars, ret, cursor, requested>>

\* auth.py line 70: one turn of the comprehension, in insertion order; the
\* iterator raises RuntimeError when the dictionary's size has changed
SweepScan(t) ==
    /\ tpc[t] = "sweep_scan"
    /\ LET left == DOMAIN sessions \ tloc[t].seen IN
       IF Cardinality(DOMAIN sessions) # tloc[t].size
       THEN SessionOutcome(t, DICT_CHANGED, None)
       ELSE IF left = {}
       THEN tpc' = [tpc EXCEPT ![t] = "sweep_delete"] /\ UNCHANGED tloc
       ELSE LET token == CHOOSE x \in left : \A y \in left : x[2] <= y[2] IN
            /\ tloc' = [tloc EXCEPT ![t].seen = @ \cup {token},
                                    ![t].expired = IF tloc[t].now > sessions[token].expiry
                                                   THEN @ \cup {token} ELSE @]
            /\ UNCHANGED tpc
    /\ UNCHANGED <<alertVars, authVars, clock, histVars, dbVars, loopVars, ret, cursor, requested>>

\* auth.py lines 71-72: one turn of the for loop, or its end
SweepDelete(t) ==
    /\ tpc[t] = "sweep_delete"
    /\ IF tloc[t].expired = {}
       THEN SessionOutcome(t, None, None) /\ UNCHANGED sessions
       ELSE LET token == CHOOSE x \in tloc[t].expired : \A y \in tloc[t].expired : x[2] <= y[2] IN
            IF token \notin DOMAIN sessions
            THEN SessionOutcome(t, KEY_ERROR, None) /\ UNCHANGED sessions
            ELSE /\ sessions' = Without(token)
                 /\ tloc' = [tloc EXCEPT ![t].expired = @ \ {token}]
                 /\ UNCHANGED tpc
    /\ UNCHANGED <<users, issued>>
    /\ UNCHANGED <<alertVars, clock, histVars, dbVars, loopVars, ret, cursor, requested>>

ValCalls == \E t \in Threads, token \in DOMAIN issued : ValCall(t, token)
ValChecks == \E t \in Threads : ValCheck(t)
ValReads == \E t \in Threads : ValRead(t)
ValTests == \E t \in Threads : ValTest(t)
ValDeletes == \E t \in Threads : ValDelete(t)
SweepCalls == \E t \in Threads : SweepCall(t)
SweepScans == \E t \in Threads : SweepScan(t)
SweepDeletes == \E t \in Threads : SweepDelete(t)

\* the registration and the logins that create the sessions
SessionRegister ==
    /\ register_user("alice", "pw123", "s1")
    /\ UNCHANGED <<alertVars, clock, histVars, dbVars, loopVars, reqVars>>
SessionLogin ==
    \E t \in Tokens :
        /\ t = <<"token", Cardinality(DOMAIN issued) + 1>>
        /\ login_user("alice", "pw123", t)
        /\ UNCHANGED <<alertVars, clock, histVars, dbVars, loopVars, reqVars>>

----------------------------------------------------------------------------
(* src/app.py: POST /api/thresholds *)

\* the Authorization header is missing or is not a Bearer header
NoHeader == <<"no header">>
\* a field of the JSON body: absent (or null), or present with a number
Absent == <<>>
ThresholdFields == {Absent, <<50>>, <<150>>}

\* lines 172-193, followed by the teardown
update_thresholds(token, cpu, memory) ==
    LET present == token # NoHeader /\ token \in DOMAIN sessions
        expired == present /\ clock > sessions[token].expiry
        authorised == present /\ ~expired
        valid(field) == field[1] >= 0 /\ field[1] <= 100
        cpu_raises == cpu # Absent /\ ~valid(cpu)
        memory_raises == ~cpu_raises /\ memory # Absent /\ ~valid(memory)
    IN  /\ sessions' = IF expired THEN [x \in DOMAIN sessions \ {token} |-> sessions[x]]
                       ELSE sessions
        /\ cpu_threshold' = IF authorised /\ cpu # Absent /\ valid(cpu)
                            THEN cpu[1] ELSE cpu_threshold
        /\ memory_threshold' = IF authorised /\ ~cpu_raises /\ memory # Absent /\ valid(memory)
                               THEN memory[1] ELSE memory_threshold
        /\ ret' = IF ~authorised
                  THEN [op |-> "update_thresholds", status |-> 401]
                  ELSE IF cpu_raises
                  THEN [op |-> "update_thresholds", status |-> 500,
                        error |-> "CPU threshold must be between 0 and 100"]
                  ELSE IF memory_raises
                  THEN [op |-> "update_thresholds", status |-> 500,
                        error |-> "Memory threshold must be between 0 and 100"]
                  ELSE [op |-> "update_thresholds", status |-> 200,
                        current_thresholds |-> get_thresholds']
        /\ close_connection
        /\ UNCHANGED <<users, issued>>
        /\ UNCHANGED <<clock, histVars, loopVars, reqVars>>

UpdateThresholds ==
    \E token \in DOMAIN issued \cup {Garbage, NoHeader}, cpu \in ThresholdFields,
       memory \in ThresholdFields :
        update_thresholds(token, cpu, memory)

Init ==
    /\ cpu_threshold = CPU_THRESHOLD_INIT
    /\ memory_threshold = MEMORY_THRESHOLD_INIT
    /\ users = <<>>
    /\ sessions = <<>>
    /\ issued = <<>>
    /\ clock = 0
    /\ recent_metrics = <<>>
    /\ pushed = <<>>
    /\ rows = <<>>
    /\ conn = TRUE
    /\ stop_event = FALSE
    /\ pc = "check"
    /\ metric = None
    /\ alerts = <<>>
    /\ iter = 0
    /\ failed = FALSE
    /\ stop_iter = -1
    /\ asleep = 0
    /\ ret = Idle
    /\ tpc = [t \in Threads |-> "idle"]
    /\ tloc = [t \in Threads |-> Idle]
    /\ cursor = [statement |-> None, owner |-> None, pending |-> <<>>]
    /\ requested = [cpu |-> {}, memory |-> {}]

NextAlerts == SetCpuThreshold \/ SetMemoryThreshold \/ CheckThresholds \/ GetThresholds

SpecAlerts == Init /\ [][NextAlerts]_vars

NextAuth ==
    \/ RegisterUser
    \/ LoginUser
    \/ ValidateSession
    \/ GetUserId
    \/ CleanupExpiredSessions
    \/ Tick

SpecAuth == Init /\ [][NextAuth]_vars

NextStore ==
    \/ StoreAlert
    \/ GetTotalAlerts
    \/ GetAlertBreakdown
    \/ GetRecentAlerts
    \/ CloseConnection

SpecStore == Init /\ [][NextStore]_vars

NextLoop ==
    \/ Check
    \/ Sample
    \/ LoopPush
    \/ LoopEval
    \/ Store
    \/ LoopStored
    \/ LoopWake
    \/ StopSignal
    \/ CloseResources

SpecLoop == Init /\ [][NextLoop]_vars

\* the collection thread is scheduled as long as it can take a step
FairSpecLoop == SpecLoop /\ WF_vars(LoopStep)

NextHist ==
    \/ QuietCheck
    \/ QuietSample
    \/ LoopPush
    \/ LoopEval
    \/ LoopStored
    \/ LoopWake
    \/ GetMetrics

SpecHist == Init /\ [][NextHist]_vars

\* the collection thread evaluating samples while request threads call the
\* AlertManager
NextRace ==
    \/ RaceCheck
    \/ RaceSampled
    \/ LoopPush
    \/ EvalCpuTest
    \/ EvalCpuAlert
    \/ EvalMemoryTest
    \/ EvalMemoryAlert
    \/ RaceStore
    \/ LoopStored
    \/ LoopWake
    \/ SetCalls
    \/ SetValidates
    \/ SetAssigns
    \/ GetCalls
    \/ GetCpus
    \/ GetMemorys
    \/ GetReturns

SpecRace == Init /\ [][NextRace]_vars

\* two request threads, each serving one POST /api/register
NextRegister ==
    \/ RegCalls
    \/ RegChecks
    \/ RegHashes
    \/ RegIds
    \/ RegInserts

SpecRegister == Init /\ [][NextRegister]_vars

\* two request threads, each running one read query, while the collection
\* thread stores alerts
NextCursor ==
    \/ DbCalls
    \/ DbExecutes
    \/ DbFetches
    \/ StoreExecutes

SpecCursor == Init /\ [][NextCursor]_vars

\* two request threads, each validating a token or sweeping once, while
\* logins arrive and time passes
NextSessions ==
    \/ SessionRegister
    \/ SessionLogin
    \/ Tick
    \/ ValCalls
    \/ ValChecks
    \/ ValReads
    \/ ValTests
    \/ ValDeletes
    \/ SweepCalls
    \/ SweepScans
    \/ SweepDeletes

SpecSessions == Init /\ [][NextSessions]_vars

\* threshold update requests from a client that registers and logs in
NextThresholdApi ==
    \/ SessionRegister
    \/ SessionLogin
    \/ Tick
    \/ UpdateThresholds

SpecThresholdApi == Init /\ [][NextThresholdApi]_vars

----------------------------------------------------------------------------
(* Properties of the AlertManager, checked under SpecAlerts *)

AlertsOfType(result, type) == {i \in DOMAIN result : result[i].type = type}

\* C2: check_thresholds decides CPU and memory independently and strictly:
\* one CPU alert iff cpu > cpu_threshold, one MEMORY alert iff memory >
\* memory_threshold, none at equality, each alert HIGH with the sample's
\* value and the current threshold; thresholds {25, 30} and sample {40, 10}
\* give exactly one CPU alert with value 40 and threshold 25.
C2_CheckThresholdsStrict ==
    ret.op = "check_thresholds" =>
        LET r == ret.result IN
        /\ Cardinality(AlertsOfType(r, "CPU")) =
               (IF ret.cpu_usage > cpu_threshold THEN 1 ELSE 0)
        /\ Cardinality(AlertsOfType(r, "MEMORY")) =
               (IF ret.memory_usage > memory_threshold THEN 1 ELSE 0)
        /\ \A i \in DOMAIN r :
               /\ r[i].type \in {"CPU", "MEMORY"}
               /\ r[i].severity = "HIGH"
               /\ r[i].type = "CPU" =>
                      r[i].value = ret.cpu_usage /\ r[i].threshold = cpu_threshold
               /\ r[i].type = "MEMORY" =>
                      r[i].value = ret.memory_usage /\ r[i].threshold = memory_threshold
        /\ (cpu_threshold = 25 /\ memory_threshold = 30
                /\ ret.cpu_usage = 40 /\ ret.memory_usage = 10) =>
               /\ Len(r) = 1
               /\ r[1].type = "CPU" /\ r[1].value = 40 /\ r[1].threshold = 25

\* a sample whose cpu equals the threshold and whose memory exceeds its own
C2_Witness ==
    /\ ret.op = "check_thresholds"
    /\ ret.cpu_usage = cpu_threshold
    /\ ret.memory_usage > memory_threshold
    /\ Len(ret.result) = 1

InRange(v) == v >= 0 /\ v <= 100

C3_Step ==
    /\ ret'.op = "set_cpu_threshold" =>
          IF InRange(ret'.threshold)
          THEN /\ ret'.raised = None
               /\ cpu_threshold' = ret'.threshold
               /\ memory_threshold' = memory_threshold
          ELSE /\ ret'.raised # None
               /\ get_thresholds' = get_thresholds
    /\ ret'.op = "set_memory_threshold" =>
          IF InRange(ret'.threshold)
          THEN /\ ret'.raised = None
               /\ memory_threshold' = ret'.threshold
               /\ cpu_threshold' = cpu_threshold
          ELSE /\ ret'.raised # None
               /\ get_thresholds' = get_thresholds
    /\ InRange(cpu_threshold') /\ InRange(memory_threshold')

\* C3: a setter stores v and succeeds iff 0 <= v <= 100, otherwise it raises
\* and both thresholds keep their prior values; from (25, 30) both thresholds
\* are within [0, 100] in every reachable state.
C3_SettersValidate ==
    /\ cpu_threshold = CPU_THRESHOLD_INIT /\ memory_threshold = MEMORY_THRESHOLD_INIT
    /\ InRange(cpu_threshold) /\ InRange(memory_threshold)
    /\ [][C3_Step]_vars

\* set_cpu_threshold(150) has just failed on thresholds already changed
C3_Witness ==
    /\ ret.op = "set_cpu_threshold"
    /\ ret.threshold = 150
    /\ ret.raised # None
    /\ cpu_threshold = 50 /\ memory_threshold = 100

----------------------------------------------------------------------------
(* Properties of the AuthManager, checked under SpecAuth *)

RegisterFrame ==
    /\ \A u \in DOMAIN users : u \in DOMAIN users' /\ users'[u] = users[u]
    /\ \A u \in DOMAIN users' : users'[u].username = u

C4_OriginalStep ==
    /\ \A u \in Usernames, p \in Passwords, s \in Salts :
          register_user(u, p, s) =>
              IF u \in DOMAIN users
              THEN /\ ret'.raised = "Username already exists"
                   /\ users' = users
                   /\ sessions' = sessions
              ELSE /\ ret'.raised = None
                   /\ DOMAIN users' = DOMAIN users \cup {u}
                   /\ ret'.result = users'[u].id
                   /\ sessions' = sessions
    /\ RegisterFrame

\* C4 as claimed: register_user on a taken username raises AlreadyExists and
\* changes neither users nor sessions; otherwise it adds exactly one user and
\* returns its id; usernames stay unique and a user record, once created, is
\* never modified.
C4_RegisterDuplicate == [][C4_OriginalStep]_vars

C4_AmendedStep ==
    /\ \A u \in Usernames, p \in Passwords, s \in Salts :
          register_user(u, p, s) =>
              IF u \in DOMAIN users
              THEN /\ ret'.raised = "Username already exists"
                   /\ users' = users
                   /\ sessions' = sessions
              ELSE IF encodable(p)
              THEN /\ ret'.raised = None
                   /\ DOMAIN users' = DOMAIN users \cup {u}
                   /\ ret'.result = users'[u].id
                   /\ checkpw(encode(p), users'[u].password_hash)
                   /\ sessions' = sessions
              ELSE /\ ret'.raised \notin {None, "Username already exists"}
                   /\ users' = users
                   /\ sessions' = sessions
    /\ RegisterFrame

\* C4 as amended: register_user on a taken username raises AlreadyExists and
\* changes neither users nor sessions; on a free username it adds exactly one
\* user and returns its id when the password can be encoded, and otherwise
\* raises the encoding error and changes nothing; usernames stay unique and
\* a user record, once created, is never modified.
C4_RegisterAmended == [][C4_AmendedStep]_vars

\* a duplicate registration was refused while a session exists
C4_Witness ==
    /\ ret.op = "register_user"
    /\ ret.raised = "Username already exists"
    /\ Cardinality(DOMAIN users) = 2
    /\ sessions # <<>>

PasswordMatches(u, p) ==
    encodable(p) /\ checkpw(encode(p), users[u].password_hash)

C5_Step ==
    \A u \in Usernames, p \in Passwords, t \in Tokens :
        login_user(u, p, t) =>
            IF u \notin DOMAIN users \/ ~PasswordMatches(u, p)
            THEN /\ ret'.raised = "Invalid username or password"
                 /\ users' = users
                 /\ sessions' = sessions
            ELSE /\ ret'.raised = None
                 /\ ret'.result = t
                 /\ t \notin DOMAIN sessions
                 /\ DOMAIN sessions' = DOMAIN sessions \cup {t}
                 /\ \A x \in DOMAIN sessions : sessions'[x] = sessions[x]
                 /\ sessions'[t] = [user_id |-> users[u].id, username |-> u,
                                    expiry |-> clock + 24 * 3600]
                 /\ users' = users

\* C5: a failed login raises the same message for an unknown username and for
\* a password that does not match, and changes nothing; a successful login
\* adds exactly one session under the returned token, bound to the user's id
\* and username, expiring 24 hours after the login.
C5_LoginUniform == [][C5_Step]_vars

C6_Step ==
    \* the clock does not go back, a login time is not rewritten, and a
    \* deleted session does not come back
    /\ clock' >= clock
    /\ \A t \in DOMAIN issued :
           /\ t \in DOMAIN issued' /\ issued'[t] = issued[t]
           /\ t \notin DOMAIN sessions => t \notin DOMAIN sessions'
    /\ \A t \in DOMAIN issued :
        validate_session(t) =>
            /\ ret'.result = (t \in DOMAIN sessions /\ clock <= issued[t] + SESSION_DURATION)
            /\ ret'.result = (clock <= issued[t] + 24 * 3600)
            /\ ret'.result = FALSE => t \notin DOMAIN sessions'

\* C6: for a token issued at t0, validate_session at time t returns True iff
\* the session exists and t <= t0 + 24h: True up to and at the expiry, False
\* after it; as the clock does not go back and a deleted session does not
\* come back, it is never True again once it has been False.
C6_ValidateUntilExpiry == [][C6_Step]_vars

\* a token validated at exactly its expiry
C6_Witness ==
    /\ ret.op = "validate_session"
    /\ ret.result = TRUE
    /\ ret.token \in DOMAIN issued
    /\ clock = issued[ret.token] + SESSION_DURATION

C7_Step ==
    \A t \in DOMAIN issued \cup {Garbage} :
        validate_session(t) =>
            IF t \notin DOMAIN sessions
            THEN ret'.result = FALSE /\ users' = users /\ sessions' = sessions
            ELSE IF clock > sessions[t].expiry
            THEN /\ ret'.result = FALSE
                 /\ DOMAIN sessions' = DOMAIN sessions \ {t}
                 /\ \A x \in DOMAIN sessions' : sessions'[x] = sessions[x]
                 /\ users' = users
            ELSE ret'.result = TRUE /\ users' = users /\ sessions' = sessions

\* C7: validate_session changes state only by lazy expiry: an absent token
\* gives False and no change, a present expired token is deleted (that one
\* session only) and gives False, a present unexpired token gives True and
\* no change.
C7_ValidateFrame == [][C7_Step]_vars

\* an expired session was deleted by validate_session while another expired
\* session is still stored
C7_Witness ==
    /\ ret.op = "validate_session"
    /\ ret.result = FALSE
    /\ ret.token \in DOMAIN issued
    /\ ret.token \notin DOMAIN sessions
    /\ \E t \in DOMAIN sessions : clock > sessions[t].expiry

----------------------------------------------------------------------------
(* Properties of the metric history, checked under SpecHist *)

Min(a, b) == IF a <= b THEN a ELSE b

\* the last k of the first n samples pushed
Window(n, k) == SubSeq(pushed, n - Min(n, k) + 1, n)

\* C1: after n pushes the history holds exactly the last min(n, 100) pushed
\* samples, oldest first, and never more than 100; what a reader copies under
\* the lock is the tail of that window.
C1_HistoryWindow ==
    /\ Len(recent_metrics) <= 100
    /\ recent_metrics = Window(Len(pushed), 100)
    /\ \A i \in 1..(Len(recent_metrics) - 1) :
           recent_metrics[i].timestamp < recent_metrics[i + 1].timestamp
    /\ ret.op = "get_metrics" =>
           /\ Len(ret.recent_metrics) = Min(ret.n, 50)
           /\ ret.recent_metrics = Window(ret.n, 50)

\* a reader has copied the history after it had overflowed
C1_Witness ==
    /\ ret.op = "get_metrics"
    /\ ret.n > 100
    /\ Len(recent_metrics) = 100
    /\ recent_metrics[1] = pushed[Len(pushed) - 99]

----------------------------------------------------------------------------
(* Properties of the collection loop, checked under SpecLoop / FairSpecLoop *)

C8_Inv ==
    /\ pc \in {"check", "sample", "push", "eval", "store", "sleep", "stopped"}
    /\ pc = "stopped" => stop_event
    /\ failed => pc \in {"sleep", "check", "stopped"}
    /\ pc = "sleep" => asleep = (IF failed THEN 10 ELSE 5)

C8_Step ==
    \* a store on the closed connection raises: the loop goes to the backoff
    /\ (pc = "store" /\ alerts # <<>> /\ ~conn /\ pc' # pc) =>
           pc' = "sleep" /\ asleep' = 10 /\ failed'
    /\ (~failed /\ failed') => pc' = "sleep" /\ asleep' = 10
    \* after the sleep the loop is back at its head
    /\ (pc = "sleep" /\ pc' # pc) => pc' = "check" /\ clock' = clock + asleep
    \* and begins another iteration unless the stop signal is set
    /\ (pc = "check" /\ pc' # pc) =>
           IF stop_event THEN pc' = "stopped"
           ELSE pc' = "sample" /\ iter' = iter + 1
    \* iterations begin at the head of the loop only: one in flight at a time
    /\ iter' # iter => pc = "check"

\* C8: an error raised inside an iteration is caught, the loop waits 10 (5
\* only after an iteration without error) and begins another iteration; it
\* leaves Running only after the stop signal is set, and iterations do not
\* overlap.
C8_LoopSurvivesErrors == C8_Inv /\ [][C8_Step /\ C8_Inv']_vars

\* the first iteration's alert failed to be stored and a second iteration
\* is in flight
C8_Witness ==
    /\ pc = "push"
    /\ iter = 2
    /\ Len(pushed) = 1
    /\ pushed[1].cpu_usage > cpu_threshold
    /\ rows = <<>>
    /\ ~stop_event

C9_Inv ==
    \* no iteration begins after the signal
    /\ stop_event => iter = stop_iter
    /\ Len(pushed) <= iter
    /\ Len(rows) <= 2 * iter

C9_Step ==
    \* the signal is read at the head of the loop only
    /\ (pc' = "stopped" /\ pc # "stopped") => pc = "check" /\ stop_event
    /\ (stop_event /\ pc = "check" /\ pc' # pc) => pc' = "stopped"
    /\ stop_event => stop_event'
    /\ pc = "stopped" => pc' = "stopped" /\ recent_metrics' = recent_metrics /\ rows' = rows

\* C9: the stop signal is read only at the iteration boundary; once it is
\* set the loop reaches Stopped after at most the iteration in flight and
\* its sleep, and no iteration begins (so nothing is pushed or stored by
\* one) after the signal.
C9_CooperativeStop ==
    /\ C9_Inv
    /\ [][C9_Step /\ C9_Inv']_vars
    /\ (stop_event ~> pc = "stopped")

\* the signal arrived during an iteration that then failed; the loop slept
\* and stopped
C9_Witness ==
    /\ pc = "stopped"
    /\ failed
    /\ iter = 2
    /\ stop_iter = 2
    /\ Len(pushed) = 2

----------------------------------------------------------------------------
(* Properties of the alert table, checked under SpecStore *)

Count(f, k) == IF k \in DOMAIN f THEN f[k] ELSE 0

Injections(A, B) == {f \in [A -> B] : \A x, y \in A : x # y => f[x] # f[y]}

C10_Inv ==
    /\ (ret.op = "get_total_alerts" /\ ret.raised = None) => ret.result = Len(rows)
    /\ (ret.op = "get_alert_breakdown" /\ ret.raised = None) =>
           /\ DOMAIN ret.result = {rows[i].type : i \in DOMAIN rows}
           /\ \A k \in DOMAIN ret.result :
                  ret.result[k] = Cardinality({i \in DOMAIN rows : rows[i].type = k})
           /\ Count(ret.result, "CPU") + Count(ret.result, "MEMORY") = Len(rows)
    /\ (ret.op = "get_recent_alerts" /\ ret.raised = None) =>
           LET r == ret.result IN
           /\ Len(r) = Min(ret.limit, Len(rows))
           /\ \A i, j \in DOMAIN r :
                  i < j => r[i].timestamp.isoformat >= r[j].timestamp.isoformat
           /\ \E f \in Injections(DOMAIN r, DOMAIN rows) :
                  /\ \A i \in DOMAIN r : r[i] = RowAlert(rows[f[i]])
                  /\ \A l \in DOMAIN rows \ {f[i] : i \in DOMAIN r} :
                         \A i \in DOMAIN r :
                             rows[l].timestamp.isoformat <= r[i].timestamp.isoformat
    /\ (Len(rows) = 1 /\ rows[1].type = "CPU" /\ conn) =>
           get_total_alerts = 1 /\ get_alert_breakdown = [k \in {"CPU"} |-> 1]

C10_Step ==
    /\ ret'.op = "store_alert" =>
          IF ret'.raised = None
          THEN /\ get_total_alerts' = get_total_alerts + 1
               /\ RowAlert(rows'[Len(rows')]) =
                      [ret'.alert EXCEPT !.timestamp = adapt_datetime(ret'.alert.timestamp)]
               /\ \A r \in get_recent_alerts(10)' :
                      \E i \in DOMAIN r : r[i] = RowAlert(rows'[Len(rows')])
          ELSE rows' = rows
    /\ Len(rows') >= Len(rows)
    /\ \A i \in DOMAIN rows : rows'[i] = rows[i]

\* C10: the alert table is append-only with read-your-writes: a successful
\* store_alert raises the total by one, the breakdown maps each kind to the
\* number of stored alerts of that kind, get_recent_alerts(limit) returns the
\* min(limit, total) alerts with the latest timestamps, latest first, and no
\* operation removes or changes a stored alert.
C10_AppendOnlyStore == C10_Inv /\ [][C10_Step /\ C10_Inv']_vars

\* a query for the two latest of three alerts, the last stored not the latest
C10_Witness ==
    /\ ret.op = "get_recent_alerts"
    /\ ret.raised = None
    /\ ret.limit = 2
    /\ Len(rows) = 3
    /\ rows[3].timestamp.isoformat < rows[1].timestamp.isoformat

----------------------------------------------------------------------------
(* Properties of concurrent AlertManager calls, checked under SpecRace *)

AllowedCpu == {CPU_THRESHOLD_INIT} \cup {v \in requested["cpu"] : InRange(v)}
AllowedMemory == {MEMORY_THRESHOLD_INIT} \cup {v \in requested["memory"] : InRange(v)}
AllowedFor(type) == IF type = "CPU" THEN AllowedCpu ELSE AllowedMemory

\* C11: however set_cpu_threshold / set_memory_threshold calls interleave
\* with check_thresholds and get_thresholds, every read of a threshold (the
\* value a read would return now, the values get_thresholds has collected,
\* the thresholds copied into alerts) is the initial value or an in-range
\* value some set call was invoked with; a rejected value is never observed.
C11_ReadsObserveSetValues ==
    /\ cpu_threshold \in AllowedCpu
    /\ memory_threshold \in AllowedMemory
    /\ \A t \in Threads :
        /\ tpc[t] \in {"get_memory", "get_return"} => tloc[t].cpu_threshold \in AllowedCpu
        /\ tpc[t] = "get_return" => tloc[t].memory_threshold \in AllowedMemory
    /\ \A i \in DOMAIN alerts : alerts[i].threshold \in AllowedFor(alerts[i].type)
    /\ \A i \in DOMAIN rows : rows[i].threshold \in AllowedFor(rows[i].type)

C11_Witness ==
    /\ \E t \in Threads : tpc[t] = "get_return" /\ tloc[t].cpu_threshold = 50
                          /\ tloc[t].memory_threshold = MEMORY_THRESHOLD_INIT
    /\ \E t \in Threads : tpc[t] = "set_assign" /\ tloc[t].op = "memory"
    /\ 150 \in requested["cpu"]
    /\ pc = "eval_memory_alert"

\* C12: every alert check_thresholds produces, and every alert stored from
\* it, carries the threshold its value was compared against, so its value is
\* greater than its threshold, also while setters run during the evaluation.
C12_AlertsExceedThreshold ==
    /\ \A i \in DOMAIN alerts : alerts[i].value > alerts[i].threshold
    /\ \A i \in DOMAIN rows : rows[i].value > rows[i].threshold

----------------------------------------------------------------------------
(* Properties of the collection loop's side effects, checked under SpecLoop *)

\* the clock stands at the failed iteration's sampling instant until the
\* back-off sleep returns, and no earlier sample or alert bears that instant
OfThisIteration(timestamp) == timestamp = clock

\* C13: when an iteration has failed (at sampling, evaluation or a store), the
\* history holds no sample of that iteration and the AlertStore holds none of
\* that iteration's alerts: both are as they were when the iteration began.
C13_FailedIterationNoEffect ==
    (failed /\ pc = "sleep") =>
        /\ \A i \in DOMAIN recent_metrics : ~OfThisIteration(recent_metrics[i].timestamp)
        /\ \A i \in DOMAIN rows : ~OfThisIteration(rows[i].timestamp.isoformat)

StoredFor(sample, type) ==
    {i \in DOMAIN rows : rows[i].type = type /\ rows[i].timestamp = adapt_datetime(sample.timestamp)}

Exceeding(type) == {j \in DOMAIN pushed :
    IF type = "CPU" THEN pushed[j].cpu_usage > cpu_threshold
                    ELSE pushed[j].memory_usage > memory_threshold}

\* C14: the loop keeps no memory of earlier alerts. An iteration that has
\* completed without error has stored exactly one CPU alert iff its sample's
\* cpu exceeds the CPU threshold and exactly one MEMORY alert iff its memory
\* exceeds the memory threshold, whatever was stored before; no sample ever
\* has two alerts of a kind or an alert for a metric that did not exceed; and
\* every stored alert has the timestamp and the value of a pushed sample.
C14_AlertPerExceedingSample ==
    /\ (pc = "sleep" /\ ~failed) =>
        /\ Cardinality(StoredFor(metric, "CPU")) = (IF metric.cpu_usage > cpu_threshold THEN 1 ELSE 0)
        /\ Cardinality(StoredFor(metric, "MEMORY")) = (IF metric.memory_usage > memory_threshold THEN 1 ELSE 0)
        /\ pushed[Len(pushed)] = metric
    /\ \A j \in DOMAIN pushed, type \in {"CPU", "MEMORY"} :
        Cardinality(StoredFor(pushed[j], type)) <= (IF j \in Exceeding(type) THEN 1 ELSE 0)
    /\ \A i \in DOMAIN rows : \E j \in DOMAIN pushed :
        /\ rows[i].timestamp = adapt_datetime(pushed[j].timestamp)
        /\ rows[i].value = (IF rows[i].type = "CPU" THEN pushed[j].cpu_usage ELSE pushed[j].memory_usage)

\* three consecutive successful iterations with the CPU above its threshold
\* have stored three CPU alerts
C14_Witness ==
    /\ pc = "sleep" /\ ~failed /\ iter = 3
    /\ Len(pushed) = 3 /\ Exceeding("CPU") = {1, 2, 3}
    /\ Cardinality({i \in DOMAIN rows : rows[i].type = "CPU"}) = 3

----------------------------------------------------------------------------
(* Properties of concurrent register_user calls, checked under SpecRegister *)

Registered(t) == tpc[t] = "done" /\ tloc[t].op = "register_user" /\ tloc[t].raised = None

\* C15: register_user calls exclude one another: two concurrent calls never
\* both succeed for one username, the ids of two successful registrations
\* differ, and the stored password hash of a username registered by one
\* successful call is the hash of that call's password.
C15_RegisterExclusive ==
    \A t \in Threads : \A u \in Threads \ {t} :
        (Registered(t) /\ Registered(u)) =>
            /\ tloc[t].username # tloc[u].username
            /\ tloc[t].result # tloc[u].result

----------------------------------------------------------------------------
(* Properties of concurrent AlertStore use, checked under SpecCursor *)

\* the rows committed by the first k stores
Committed(k) == SubSeq(rows, 1, k)

\* C16: overlapping read queries and a concurrent store do not disturb one
\* another: every finished query has returned normally, with the result of
\* its own statement on some committed state of the store (a count of the
\* first k rows, their breakdown by type, or at most SUMMARY_LIMIT of them
\* in descending timestamp order), never rows fetched from another caller's
\* statement.
C16_QueriesIsolated ==
    \A t \in Threads : tpc[t] = "done" =>
        /\ tloc[t].raised = None
        /\ \E k \in 0..Len(rows) :
            IF tloc[t].op = "get_total_alerts" THEN tloc[t].result = k
            ELSE IF tloc[t].op = "get_alert_breakdown"
                 THEN tloc[t].result = CountByType(Committed(k), <<>>)
            ELSE /\ Len(tloc[t].result) = Min(k, SUMMARY_LIMIT)
                 /\ \A i \in DOMAIN tloc[t].result :
                        \E j \in 1..k : tloc[t].result[i] = RowAlert(rows[j])

----------------------------------------------------------------------------
(* Properties of the explicit session sweep, checked under SpecAuth *)

\* what validate_session(t) would answer in the current state
Validates(t) == t \in DOMAIN sessions /\ ~(clock > sessions[t].expiry)

C17_Step ==
    /\ cleanup_expired_sessions =>
        /\ DOMAIN sessions' = {t \in DOMAIN sessions : ~(sessions[t].expiry < clock)}
        /\ \A t \in DOMAIN sessions' : sessions'[t] = sessions[t]
        /\ users' = users
        /\ \A t \in DOMAIN issued \cup {Garbage} : Validates(t)' = Validates(t)
    /\ (\E t \in DOMAIN sessions : t \notin DOMAIN sessions') =>
        ret'.op \in {"cleanup_expired_sessions", "validate_session"}

\* C17: cleanup_expired_sessions removes exactly the sessions whose expiry
\* is before the current time and changes no other session and no user; the
\* answer validate_session gives for any token is the same after the sweep as
\* before it; and a session disappears only in an explicit sweep or in the
\* validate_session that finds it expired, never as a side effect of another
\* call or of time passing.
C17_SweepExact == [][C17_Step]_vars

\* a sweep has removed an expired session and left an unexpired one
C17_Witness ==
    /\ ret.op = "cleanup_expired_sessions"
    /\ ret.removed # {}
    /\ \E t \in DOMAIN sessions : ~(clock > sessions[t].expiry)

----------------------------------------------------------------------------
(* Properties of the AlertStore's connection, checked under SpecLoop *)

\* C18: the AlertStore stays usable for the life of the process: whenever
\* the collection loop is about to store an alert, also after requests have
\* been served and their application contexts torn down, the connection is
\* open, so the alert of an exceeding sample gets stored.
C18_StoreStaysUsable == (pc = "store" /\ alerts # <<>>) => conn

----------------------------------------------------------------------------
(* Properties of concurrent session calls, checked under SpecSessions *)

\* C19: validate_session and cleanup_expired_sessions return normally under
\* every interleaving with one another and with logins: no finished call has
\* raised, and every finished validate_session has returned a boolean.
C19_SessionCallsReturn ==
    \A t \in Threads : tpc[t] = "done" =>
        /\ tloc[t].raised = None
        /\ tloc[t].op = "validate_session" => tloc[t].result \in BOOLEAN

----------------------------------------------------------------------------
(* Properties of POST /api/thresholds, checked under SpecThresholdApi *)

C20_Step ==
    \A token \in DOMAIN issued \cup {Garbage, NoHeader} :
        \A cpu \in ThresholdFields \ {Absent}, memory \in ThresholdFields \ {Absent} :
            (update_thresholds(token, cpu, memory) /\ ret'.status # 200) =>
                /\ cpu_threshold' = cpu_threshold
                /\ memory_threshold' = memory_threshold

\* C20: a threshold update request carrying both a cpu_threshold and a
\* memory_threshold is all-or-nothing: a request that is rejected, for a
\* value outside 0..100 or for want of a valid session token, leaves both
\* thresholds as they were.
C20_UpdateAllOrNothing == [][C20_Step]_vars

====
